---- MODULE Spec2Model ----
(***************************************************************************)
(* Chakravala solver for Pell's equation x^2 - N*y^2 = 1 (src/main.rs).    *)
(* The driver `chakravala` is a state machine over the triple (a, b, k);   *)
(* `find_optimal_m` is a pure function, modelled as a recursive operator   *)
(* that walks the offsets and candidates in the order the code does.       *)
(***************************************************************************)
EXTENDS Integers, Sequences, FiniteSets, TLC

\* ------------------------------------------------------------------------
\* Bounds of the model
\* ------------------------------------------------------------------------

\* Largest N of the narrow specification: every run for N <= MaxN + 1 ends,
\* and the squares of its values fit the 32-bit integers of the model.
MaxN == 46

\* Largest N of the wide specification.
WideN == 750

\* BigInt is unbounded; the model takes a composition step only while a and
\* b are at most MaxA, which keeps every product of a step representable.
MaxA == 1000000

VARIABLES
    pc,     \* position of the driver: Init, Iterating, Done, Rejected, Panicked
    n,      \* the argument N of chakravala
    a, b, k,        \* the current triple (0, 0, 0 before it is constructed)
    m,      \* the multiplier used by the last composition step (0: none yet)
    pa, pb, pk,     \* the triple the last composition step was applied to
    ret     \* what chakravala returned: Pending, None, Some

vars == <<pc, n, a, b, k, m, pa, pb, pk, ret>>

\* ------------------------------------------------------------------------
\* BigInt facade
\* ------------------------------------------------------------------------

Abs(x) == IF x < 0 THEN -x ELSE x

Min(x, y) == IF x < y THEN x ELSE y

\* BigInt `/` truncates toward zero.
TruncDiv(x, y) ==
    IF (x >= 0) = (y >= 0) THEN Abs(x) \div Abs(y) ELSE -(Abs(x) \div Abs(y))

\* BigInt `%` is the remainder of the truncating division (sign of x).
TruncRem(x, y) == x - y * TruncDiv(x, y)

\* BigInt::sqrt is the floor of the square root; found by bisection on
\* lo^2 <= x < hi^2.
RECURSIVE sqrt_between(_, _, _)
sqrt_between(x, lo, hi) ==
    IF hi - lo <= 1 THEN lo
    ELSE LET mid == (lo + hi) \div 2
         IN  IF mid * mid <= x THEN sqrt_between(x, mid, hi)
                               ELSE sqrt_between(x, lo, mid)

sqrt(x) == sqrt_between(x, 0, Min(x, 46339) + 1)

\* Option<T>
None == <<>>
Some(x) == <<x>>
IsSome(o) == o /= None
Unwrap(o) == o[1]

\* ------------------------------------------------------------------------
\* find_optimal_m
\* ------------------------------------------------------------------------

\* variant: the search window is capped at two offsets
limit_capped(abs_k) == Min(abs_k, 2)

\* let limit = abs_k.to_u64().unwrap_or(1000).saturating_add(2);
\* (|k| fits u64 for every u32 N the model reaches)
limit(abs_k) == abs_k + 2

\* the candidates of one offset, in the order the code visits them
candidates(target, offset) ==
    IF offset = 0 THEN <<target>> ELSE <<target + offset, target - offset>>

\* variant: b is left out of the sum
divisible_without_b(a_, b_, candidate, abs_k) ==
    TruncRem(a_ + candidate, abs_k) = 0

\* variant: a and b change places in the sum
divisible_swapped(a_, b_, candidate, abs_k) ==
    TruncRem(a_ * candidate + b_, abs_k) = 0

\* (a + b*m) % |k| == 0
divisible(a_, b_, candidate, abs_k) ==
    TruncRem(a_ + b_ * candidate, abs_k) = 0

\* variant: a candidate that only equals the best difference replaces it
is_better_or_equal(best_m, min_diff, diff) ==
    \/ ~IsSome(best_m)
    \/ IF IsSome(min_diff) THEN diff <= Unwrap(min_diff) ELSE TRUE

\* best_m.is_none() || min_diff.as_ref().map_or(true, |d| diff < *d)
is_better(best_m, min_diff, diff) ==
    \/ ~IsSome(best_m)
    \/ IF IsSome(min_diff) THEN diff < Unwrap(min_diff) ELSE TRUE

\* the inner loop `for candidate in candidates`, from index i on; st holds
\* best_m and min_diff.  `break` leaves this loop only.
RECURSIVE scan_candidates(_, _, _, _, _, _, _, _)
scan_candidates(cands, i, st, offset, n_, a_, b_, abs_k) ==
    IF i > Len(cands) THEN st
    ELSE LET candidate == cands[i]
         IN  IF candidate <= 0
             THEN scan_candidates(cands, i + 1, st, offset, n_, a_, b_, abs_k)
             ELSE IF divisible(a_, b_, candidate, abs_k)
             THEN LET diff == Abs(candidate * candidate - n_)
                  IN  IF is_better(st.best_m, st.min_diff, diff)
                      THEN scan_candidates(cands, i + 1,
                               [best_m |-> Some(candidate), min_diff |-> Some(diff)],
                               offset, n_, a_, b_, abs_k)
                      ELSE IF offset > 5
                      THEN st
                      ELSE scan_candidates(cands, i + 1, st, offset, n_, a_, b_, abs_k)
             ELSE scan_candidates(cands, i + 1, st, offset, n_, a_, b_, abs_k)

\* if best_m.is_some() && offset > abs_k.to_u64().unwrap_or(0).min(10) { break; }
stop_search(best_m, offset, abs_k) ==
    IsSome(best_m) /\ offset > Min(abs_k, 10)

\* the rest of one pass of the outer loop, st2 being best_m and min_diff after
\* the inner loop
RECURSIVE search(_, _, _, _, _, _, _)
after_candidates(offset, st2, n_, a_, b_, abs_k, target) ==
    IF stop_search(st2.best_m, offset, abs_k)
    THEN st2
    ELSE search(offset + 1, st2, n_, a_, b_, abs_k, target)

\* the outer loop `for offset in 0..limit`, from `offset` on.  The inner loop
\* is evaluated once per offset: its result is bound as the element of a
\* singleton set.
search(offset, st, n_, a_, b_, abs_k, target) ==
    IF offset >= limit(abs_k) THEN st
    ELSE CHOOSE res \in
             { after_candidates(offset, st2, n_, a_, b_, abs_k, target) :
                 st2 \in { scan_candidates(candidates(target, offset), 1, st,
                                            offset, n_, a_, b_, abs_k) } } : TRUE

\* The Option the final `expect` unwraps.  A zero |k| makes `%` panic
\* (division by zero), which the model reports as None as well.
find_optimal_m(n_, a_, b_, k_) ==
    IF k_ = 0 THEN None
    ELSE search(0, [best_m |-> None, min_diff |-> None],
                n_, a_, b_, Abs(k_), sqrt(n_)).best_m

\* ------------------------------------------------------------------------
\* chakravala
\* ------------------------------------------------------------------------

\* variant: the comparison is <= instead of ==
is_perfect_square_le(n_) == sqrt(n_) * sqrt(n_) <= n_

\* variant: zero is let through to the loop
is_perfect_square_positive(n_) == n_ > 0 /\ sqrt(n_) * sqrt(n_) = n_

\* if &sqrt_n * &sqrt_n == n_big
is_perfect_square(n_) == sqrt(n_) * sqrt(n_) = n_

\* a = closest of floor(sqrt(N)) and floor(sqrt(N)) + 1
initial_a(n_) ==
    LET root == sqrt(n_)
        diff1 == Abs(n_ - root * root)
        root_plus == root + 1
        diff2 == Abs(root_plus * root_plus - n_)
    IN  IF diff2 < diff1 THEN root_plus ELSE root

\* let mut k = &a * &a - &n_big * &b * &b;
initial_k(n_, a_, b_) == a_ * a_ - n_ * b_ * b_

\* variant: the loop also ends on k = -1
loop_cond_abs(k_) == k_ /= 1 /\ k_ /= -1

\* variant: the body runs once before the condition is looked at (do-while)
loop_cond_do_while(k_) == k_ /= 1 \/ pk = 0

\* while k != BigInt::one()
loop_cond(k_) == k_ /= 1

\* variant: k' is divided by |k|, which loses the sign of k
new_k_abs(n_, k_, m_) == TruncDiv(m_ * m_ - n_, Abs(k_))

\* lines 53-57: the composition (samasa)
new_k(n_, k_, m_) == TruncDiv(m_ * m_ - n_, k_)
new_a(n_, a_, b_, k_, m_) == TruncDiv(a_ * m_ + n_ * b_, Abs(k_))
new_b(a_, b_, k_, m_) == TruncDiv(a_ + b_ * m_, Abs(k_))

Init ==
    /\ pc = "Init"
    /\ n \in 0..MaxN
    /\ a = 0 /\ b = 0 /\ k = 0
    /\ m = 0 /\ pa = 0 /\ pb = 0 /\ pk = 0
    /\ ret = "Pending"

InitWide ==
    /\ pc = "Init"
    /\ n \in 0..WideN
    /\ a = 0 /\ b = 0 /\ k = 0
    /\ m = 0 /\ pa = 0 /\ pb = 0 /\ pk = 0
    /\ ret = "Pending"

\* lines 9-14: a perfect square N returns None
Reject ==
    /\ pc = "Init"
    /\ is_perfect_square(n)
    /\ pc' = "Rejected"
    /\ ret' = "None"
    /\ UNCHANGED <<n, a, b, k, m, pa, pb, pk>>

\* lines 16-37: the starting triple
Initialise ==
    /\ pc = "Init"
    /\ ~is_perfect_square(n)
    /\ a' = initial_a(n)
    /\ b' = 1
    /\ k' = initial_k(n, initial_a(n), 1)
    /\ pc' = "Iterating"
    /\ UNCHANGED <<n, m, pa, pb, pk, ret>>

\* lines 42-62: one pass of the loop body
Step ==
    /\ pc = "Iterating"
    /\ loop_cond(k)
    /\ a <= MaxA /\ b <= MaxA
    /\ LET r == find_optimal_m(n, a, b, k)
       IN  IF IsSome(r)
           THEN /\ m' = Unwrap(r)
                /\ a' = new_a(n, a, b, k, Unwrap(r))
                /\ b' = new_b(a, b, k, Unwrap(r))
                /\ k' = new_k(n, k, Unwrap(r))
                /\ pa' = a /\ pb' = b /\ pk' = k
                /\ pc' = "Iterating"
           ELSE /\ pc' = "Panicked"
                /\ UNCHANGED <<a, b, k, m, pa, pb, pk>>
    /\ UNCHANGED <<n, ret>>

\* line 66: the loop has ended, Some((a, b)) is returned
Finish ==
    /\ pc = "Iterating"
    /\ ~loop_cond(k)
    /\ pc' = "Done"
    /\ ret' = "Some"
    /\ UNCHANGED <<n, a, b, k, m, pa, pb, pk>>

Next == Reject \/ Initialise \/ Step \/ Finish

Spec == Init /\ [][Next]_vars

FairSpec == Init /\ [][Next]_vars /\ WF_vars(Next)

SpecWide == InitWide /\ [][Next]_vars

\* ------------------------------------------------------------------------
\* Properties
\* ------------------------------------------------------------------------

\* x is a square, by enumeration (independent of sqrt)
IsSquareN(x) == \E s \in 0..x : s * s = x

\* 1 + N*y^2 is the square of an integer, i.e. some x has x^2 - N*y^2 = 1
HasPellX(n_, y) ==
    LET v == 1 + n_ * y * y
    IN  sqrt(v) * sqrt(v) = v

\* c satisfies the constraint of the oracle for the triple of the last step
Admissible(c) == c > 0 /\ (pa + pb * c) % Abs(pk) = 0

\* |c^2 - N|
Objective(c) == Abs(c * c - n)

\* Every residue class mod |k| has a member in 1 .. floor(sqrt(N)) + |k|, and
\* larger members of a class are further from sqrt(N): the minimum over this
\* range is the minimum over all positive integers.
CandidateRange == 1..(sqrt(n) + Abs(pk) + 1)

\* c is an admissible minimiser of |c^2 - N|
Minimiser(c) ==
    /\ Admissible(c)
    /\ \A d \in CandidateRange : Admissible(d) => Objective(c) <= Objective(d)

\* a composition step has been taken (k is never 0 on a non-square N)
Stepped == pk /= 0

\* C1: for every positive non-square N, a returned pair (x, y) satisfies
\* x*x - N*y*y = 1 exactly.
C1_ReturnedPairSolves ==
    ret = "Some" => a * a - n * b * b = 1

C1_Witness ==
    ret = "Some" /\ n = 29 /\ a = 9801 /\ b = 1820

\* C2: the returned pair is the fundamental solution: y > 0 and no y' with
\* 0 < y' < y has an x' with x'*x' - N*y'*y' = 1; N = 2, 3, 5, 13 give
\* (3,2), (2,1), (9,4), (649,180).
C2_Fundamental ==
    ret = "Some" =>
        /\ b > 0
        /\ \A y \in 1..(b - 1) : ~HasPellX(n, y)
        /\ n = 2 => <<a, b>> = <<3, 2>>
        /\ n = 3 => <<a, b>> = <<2, 1>>
        /\ n = 5 => <<a, b>> = <<9, 4>>
        /\ n = 13 => <<a, b>> = <<649, 180>>

C2_Witness ==
    ret = "Some" /\ n = 13 /\ a = 649 /\ b = 180 /\ Stepped

\* C3: a perfect-square N >= 1 goes from Init straight to Rejected, returning
\* None with no triple built and no composition step; a non-square N >= 2 is
\* never rejected.
C3_SquaresRejected ==
    [][ /\ (pc = "Init" /\ n >= 1 /\ IsSquareN(n)) =>
            /\ pc' = "Rejected" /\ ret' = "None"
            /\ a' = 0 /\ b' = 0 /\ k' = 0 /\ m' = 0
        /\ (n >= 2 /\ ~IsSquareN(n)) => (pc' /= "Rejected" /\ ret' /= "None")
      ]_vars

C3_Witness ==
    pc = "Rejected" /\ n = 16 /\ ret = "None"

\* C4 as stated: N = 0 fails with InvalidInput, an outcome of its own.
C4_ZeroIsInvalidInput ==
    (n = 0 /\ pc /= "Init") => (pc = "Rejected" /\ ret = "InvalidInput")

\* C4 amended: N = 0 is rejected through the perfect-square test (0 = 0*0)
\* with the failure None that N = 1, 4, 9, ... get, and no triple is built.
C4_ZeroRejectedAsSquare ==
    /\ (n = 0 /\ pc /= "Init") =>
           (pc = "Rejected" /\ ret = "None" /\ a = 0 /\ b = 0 /\ k = 0)
    /\ pc = "Rejected" => ret = "None"

C4_Witness ==
    n = 0 /\ pc = "Rejected"

\* C5: for every positive non-square N the loop ends: from Iterating, Done is
\* always eventually reached.
C5_Terminates ==
    (pc = "Iterating") ~> (pc = "Done")

C5_Witness ==
    pc = "Done" /\ n = 46 /\ b = 3588 /\ Stepped

\* C6: every triple held by the driver, the initial one and the one after each
\* composition step, satisfies a*a - N*b*b = k exactly.
C6_TripleInvariant ==
    pc \in {"Iterating", "Done"} => a * a - n * b * b = k

C6_Witness ==
    pc = "Iterating" /\ Stepped /\ k /= 1 /\ k < 0 /\ n = 13

\* C7: the m used by a step minimises |m*m - N| over all positive integers
\* satisfying the constraint.
C7_MultiplierOptimal ==
    Stepped => \A c \in CandidateRange :
                   Admissible(c) => Objective(m) <= Objective(c)

\* C8 as stated: of two admissible minimisers m1 < m2 with equal |m*m - N|,
\* the smaller one is returned.
C8_TieSmaller ==
    Stepped => \A m1, m2 \in CandidateRange :
        (m1 < m2 /\ Minimiser(m1) /\ Minimiser(m2)) => m = m1

\* C8 amended: of two admissible minimisers m1 < m2 with equal |m*m - N|,
\* the smaller one is never returned; a returned minimiser is the larger one.
C8_TieLarger ==
    Stepped => \A m1, m2 \in CandidateRange :
        (m1 < m2 /\ Minimiser(m1) /\ Minimiser(m2)) =>
            (m /= m1 /\ (Objective(m) = Objective(m2) => m = m2))

C8_Witness ==
    Stepped /\ n = 29 /\ pa = 5 /\ pb = 1 /\ pk = -4 /\ m = 7
            /\ Minimiser(3) /\ Minimiser(7)

\* C9: find_optimal_m never fails on a reached triple with k /= 1: it returns
\* an m > 0 with (a + b*m) mod |k| = 0, found at an offset within 0 .. |k| + 1
\* of floor(sqrt(N)).
C9_OracleNeverFails ==
    /\ pc /= "Panicked"
    /\ Stepped => /\ m > 0
                  /\ (pa + pb * m) % Abs(pk) = 0
                  /\ Abs(m - sqrt(n)) <= Abs(pk) + 1

C9_Witness ==
    Stepped /\ n = 61 /\ pa = 8 /\ pb = 1 /\ pk = 3 /\ m = 7

\* C10: in every composition step the three divisions are exact:
\* (m*m - N) mod k = 0, (a*m + N*b) mod |k| = 0, (a + b*m) mod |k| = 0.
C10_ExactDivisions ==
    Stepped => /\ (m * m - n) % Abs(pk) = 0
               /\ (pa * m + n * pb) % Abs(pk) = 0
               /\ (pa + pb * m) % Abs(pk) = 0
               /\ k * pk = m * m - n
               /\ a * Abs(pk) = pa * m + n * pb
               /\ b * Abs(pk) = pa + pb * m

C10_Witness ==
    Stepped /\ n = 606 /\ pa = 74 /\ pb = 3 /\ pk = 22 /\ m = 34

====
